---- MODULE Spec2Model ----
(***************************************************************************)
(* Control core of the xiaozhi-esp32 voice endpoint:                       *)
(*   src/main/background_task.cc  BackgroundTask (worker, Schedule,        *)
(*                                WaitForCompletion)                       *)
(*   src/main/application.cc      Application (Schedule, MainLoop,         *)
(*                                SetDeviceState, audio pipelines,         *)
(*                                protocol callbacks, CheckNewVersion)     *)
(*                                                                         *)
(* Every critical section of a std::mutex that never blocks inside is one  *)
(* atomic step.  condition_variable_ is explicit: a waiter that found its  *)
(* predicate false is "blocked" until a notify_all puts it back to "enter", *)
(* where it locks and tests the predicate again.                           *)
(***************************************************************************)
EXTENDS Integers, Sequences, FiniteSets, TLC

VARIABLES
    \* ---- BackgroundTask (background_task.cc) ----
    bg_main_tasks_,     \* BackgroundTask::main_tasks_ (pending wrapped closures)
    active_tasks_,      \* BackgroundTask::active_tasks_
    bg_local,           \* BackgroundTaskLoop's local list `tasks` (head = current)
    bg_pc,              \* position of the worker thread
    cvs,                \* per thread: its position w.r.t. condition_variable_
    bg_log,             \* history: submit/start/finish/wait events of the executor clients
    next_id,            \* next id an executor client gives to a closure
    \* ---- Application scheduler and main loop (application.cc) ----
    main_tasks_,        \* Application::main_tasks_
    event_bits,         \* event_group_ bits
    mutex_,             \* owner of Application::mutex_ while Schedule is split in two steps
    ml_pc,              \* position of the main-loop thread
    ml_bits,            \* MainLoop's local `bits`
    ml_tasks,           \* MainLoop's local list `tasks` (head = current)
    ml_ret,             \* where the running closure continues after SetDeviceState
    ml_log,             \* history: ids of the opaque closures run by the main loop
    next_cid,           \* next id a scheduler client gives to a closure
    \* ---- Application core state ----
    device_state_,
    aborted_,
    keep_listening_,
    audio_decode_queue_,
    sds_pc,             \* per thread: position inside SetDeviceState
    sds_target,         \* per thread: SetDeviceState's argument
    st_pc,              \* position of the thread running Application::Start
    vc_pc,              \* position of the thread running CheckNewVersion
    ne_pc,              \* position of a transport thread inside OnNetworkError/Alert
    protocol_,          \* protocol_ != nullptr and its callbacks are registered
    ap_running,         \* audio_processor_.IsRunning()
    esp32s3,            \* CONFIG_IDF_TARGET_ESP32S3
    calls,              \* history: Alert / SendStartListening / SendWakeWordDetected
                        \* calls of the closure the main loop runs or ran last
    \* ---- IoT state publishing ----
    last_iot_states_,
    iot_sent,           \* history: payload of the last protocol_->SendIotStates
    iot_sends,          \* history: number of SendIotStates calls, modulo 2
    iot_states,         \* ThingManager::GetStatesJson()
    \* ---- codec output and decoder ----
    output_enabled,     \* the codec's output, set by EnableOutput
    silence,            \* now - last_output_time_, in half seconds
    disable_calls,      \* history: EnableOutput(false) calls of OutputAudio
                        \* since last_output_time_ was set
    opus_decode_sample_rate_,
    \* ---- PlayLocalFile over the bytes of a prompt ----
    pl_recs,            \* history: the payloads the prompt was built from
    pl_data,            \* the buffer `data` (bytes)
    pl_p,               \* the offset p - data; -1 outside the call
    pl_base             \* history: size of the decode queue when PlayLocalFile was called

bgvars  == <<bg_main_tasks_, active_tasks_, bg_local, bg_pc, cvs>>
bghist  == <<bg_log, next_id>>
mlvars  == <<main_tasks_, event_bits, mutex_, ml_pc, ml_bits, ml_tasks, ml_ret>>
mlhist  == <<ml_log, next_cid>>
iotvars == <<last_iot_states_, iot_sent, iot_sends, iot_states>>
outvars == <<output_enabled, silence, disable_calls>>
plvars  == <<pl_recs, pl_data, pl_p, pl_base>>
sidevars == <<calls, iotvars, outvars, opus_decode_sample_rate_, plvars>>
appvars == <<device_state_, aborted_, keep_listening_, audio_decode_queue_,
             sds_pc, sds_target, st_pc, vc_pc, ne_pc, protocol_,
             ap_running, esp32s3, sidevars>>
vars    == <<bgvars, bghist, mlvars, mlhist, appvars>>

(***************************************************************************)
(* Bounds of the model.                                                    *)
(***************************************************************************)
MaxTasks    == 3    \* closures the executor clients submit (SpecBG)
MaxWaits    == 2    \* WaitForCompletion calls of the executor client (SpecBG)
MaxClosures == 3    \* closures the scheduler clients append (SpecSched)
MaxQueue    == 1    \* closures of the environment pending in, or taken from, main_tasks_
MaxFrames   == 1    \* frames in flight: being queued, queued, or being decoded
MaxPackets  == 1    \* microphone blocks in flight: being encoded, or waiting to be sent
PromptLen   == 1    \* frames of an embedded prompt (p3) file
MaxSilence  == 23   \* half seconds of silence the clock counts (11.5 s)
MaxDisables == 2    \* codec ticks observed after the output was disabled
MaxRecords  == 2    \* records of a prompt buffer (SpecPrompt)
MaxPromptQueue == 3 \* entries of the decode queue (SpecPrompt)

(***************************************************************************)
(* Values.                                                                 *)
(***************************************************************************)
kDeviceStateUnknown    == "unknown"
kDeviceStateStarting   == "starting"
kDeviceStateIdle       == "idle"
kDeviceStateConnecting == "connecting"
kDeviceStateListening  == "listening"
kDeviceStateSpeaking   == "speaking"
kDeviceStateUpgrading  == "upgrading"
kDeviceStateFatalError == "fatal_error"

\* OutputAudio, line 501
max_silence_seconds == 10
\* codec->output_sample_rate(): a board whose codec plays at 16 kHz
CodecOutputRate == 16000
\* protocol_->server_sample_rate(): a server that streams at 24 kHz
ServerSampleRate == 24000
\* the values of ThingManager::GetStatesJson()
IotPayloads == {"s1", "s2"}

SCHEDULE_EVENT           == "SCHEDULE"
AUDIO_INPUT_READY_EVENT  == "AUDIO_INPUT_READY"
AUDIO_OUTPUT_READY_EVENT == "AUDIO_OUTPUT_READY"

\* the calls recorded in `calls`
SEND_START_LISTENING_AUTO   == "SendStartListening(AutoStop)"
SEND_START_LISTENING_MANUAL == "SendStartListening(ManualStop)"
SEND_WAKE_WORD_DETECTED     == "SendWakeWordDetected"
ALERT_OPEN_FAILED           == "Alert(Error, Failed to open audio channel)"

CvThreads  == {"worker", "main", "start", "client"}
SdsThreads == {"main", "start"}

\* a closure handed to BackgroundTask::Schedule
BgTask(kind, frame, id) == [kind |-> kind, frame |-> frame, id |-> id]
\* a closure handed to Application::Schedule
Closure(op, id) == [op |-> op, id |-> id]

(***************************************************************************)
(* BackgroundTask                                                          *)
(***************************************************************************)
\* mutant: only the worker is woken
NotifyWorkerOnly(c) ==
    [t \in CvThreads |-> IF t = "worker" /\ c[t] = "blocked" THEN "enter" ELSE c[t]]
\* condition_variable_.notify_all()
NotifyAll(c) == [t \in CvThreads |-> IF c[t] = "blocked" THEN "enter" ELSE c[t]]

\* mutant: push the wrapped closure at the front of the list
ScheduleEnqueueFront(q, task) == <<task>> \o q
\* main_tasks_.emplace_back(wrapper)
ScheduleEnqueue(q, task) == Append(q, task)

\* BackgroundTask::Schedule(callback): one critical section
BgSchedule(task) ==
    /\ active_tasks_' = active_tasks_ + 1
    /\ bg_main_tasks_' = ScheduleEnqueue(bg_main_tasks_, task)
    /\ cvs' = NotifyAll(cvs)

\* mutant: the predicate forgets the closures already taken by the worker
WaitPredicateQueueOnly == bg_main_tasks_ = <<>>
\* the predicate of WaitForCompletion's condition_variable_.wait
WaitPredicate == bg_main_tasks_ = <<>> /\ active_tasks_ = 0

\* BackgroundTask::WaitForCompletion() has been called by t and not returned
InWait(t) == cvs[t] # "none"
\* one scheduling of thread t inside WaitForCompletion: lock, test, return or block
WaitReturns(t) == cvs[t] = "enter" /\ WaitPredicate
WaitBlocks(t)  == cvs[t] = "enter" /\ ~WaitPredicate

\* BackgroundTaskLoop: wait for a non-empty list, take it by move
BackgroundTaskLoopTake ==
    /\ bg_pc = "wait"
    /\ cvs["worker"] = "enter"
    /\ IF bg_main_tasks_ # <<>>
         THEN /\ bg_local' = bg_main_tasks_
              /\ bg_main_tasks_' = <<>>
              /\ bg_pc' = "task"
              /\ cvs' = [cvs EXCEPT !["worker"] = "none"]
         ELSE /\ cvs' = [cvs EXCEPT !["worker"] = "blocked"]
              /\ UNCHANGED <<bg_local, bg_main_tasks_, bg_pc>>
    /\ UNCHANGED <<active_tasks_, bghist, mlvars, mlhist, appvars>>

\* the wrapper's tail: cb() has returned; lock, active_tasks_--, notify when idle
BackgroundTaskFinish ==
    /\ bg_pc = "fin"
    /\ active_tasks_' = active_tasks_ - 1
    /\ bg_local' = Tail(bg_local)
    /\ bg_pc' = IF Tail(bg_local) = <<>> THEN "wait" ELSE "task"
    /\ LET n == IF bg_main_tasks_ = <<>> /\ active_tasks_ - 1 = 0
                  THEN NotifyAll(cvs) ELSE cvs
       IN  cvs' = [n EXCEPT !["worker"] =
                       IF Tail(bg_local) = <<>> THEN "enter" ELSE "none"]
    /\ bg_log' = IF Head(bg_local).kind = "opaque"
                   THEN Append(bg_log, <<"finish", Head(bg_local).id>>)
                   ELSE bg_log
    /\ UNCHANGED <<bg_main_tasks_, next_id, mlvars, mlhist, appvars>>

\* an executor client's closure: its body is one step
OpaqueTaskRun ==
    /\ bg_pc = "task"
    /\ Head(bg_local).kind = "opaque"
    /\ bg_log' = Append(bg_log, <<"start", Head(bg_local).id>>)
    /\ bg_pc' = "fin"
    /\ UNCHANGED <<bg_main_tasks_, active_tasks_, bg_local, cvs, next_id,
                   mlvars, mlhist, appvars>>

(***************************************************************************)
(* Clients of the executor alone (SpecBG): any thread may call Schedule or *)
(* WaitForCompletion at any time.                                          *)
(***************************************************************************)
ClientSchedule ==
    /\ next_id <= MaxTasks
    /\ BgSchedule(BgTask("opaque", "none", next_id))
    /\ next_id' = next_id + 1
    /\ bg_log' = Append(bg_log, <<"submit", next_id>>)
    /\ UNCHANGED <<bg_local, bg_pc, mlvars, mlhist, appvars>>

WaitCalls(log) == Cardinality({i \in 1..Len(log) : log[i][1] = "wait_call"})

ClientWaitCall ==
    /\ cvs["client"] = "none"
    /\ WaitCalls(bg_log) < MaxWaits
    /\ cvs' = [cvs EXCEPT !["client"] = "enter"]
    /\ bg_log' = Append(bg_log, <<"wait_call", 0>>)
    /\ UNCHANGED <<bg_main_tasks_, active_tasks_, bg_local, bg_pc, next_id,
                   mlvars, mlhist, appvars>>

ClientWaitReturn ==
    /\ WaitReturns("client")
    /\ cvs' = [cvs EXCEPT !["client"] = "none"]
    /\ bg_log' = Append(bg_log, <<"wait_return", 0>>)
    /\ UNCHANGED <<bg_main_tasks_, active_tasks_, bg_local, bg_pc, next_id,
                   mlvars, mlhist, appvars>>

ClientWaitBlock ==
    /\ WaitBlocks("client")
    /\ cvs' = [cvs EXCEPT !["client"] = "blocked"]
    /\ UNCHANGED <<bg_main_tasks_, active_tasks_, bg_local, bg_pc, bghist,
                   mlvars, mlhist, appvars>>

(***************************************************************************)
(* Application::Schedule and Application::MainLoop                         *)
(***************************************************************************)
\* mutant: the closure is appended but the SCHEDULE bit is not set
ScheduleSetBitsForgotten(bits) == bits
\* xEventGroupSetBits(event_group_, SCHEDULE_EVENT)
ScheduleSetBits(bits) == bits \cup {SCHEDULE_EVENT}

\* Application::Schedule(callback) as one critical section of mutex_
AppSchedule(c) ==
    /\ mutex_ = "free"
    /\ main_tasks_' = Append(main_tasks_, c)
    /\ event_bits' = ScheduleSetBits(event_bits)

\* the stage MainLoop goes to after InputAudio / OutputAudio, given its `bits`
AfterInput(bits) ==
    IF AUDIO_OUTPUT_READY_EVENT \in bits THEN "output"
    ELSE IF SCHEDULE_EVENT \in bits THEN "sched" ELSE "wait"
AfterOutput(bits) == IF SCHEDULE_EVENT \in bits THEN "sched" ELSE "wait"
FirstStage(bits) ==
    IF AUDIO_INPUT_READY_EVENT \in bits THEN "input" ELSE AfterInput(bits)

\* xEventGroupWaitBits(..., pdTRUE, pdFALSE, portMAX_DELAY): read and clear
MainLoopWait ==
    /\ ml_pc = "wait"
    /\ event_bits # {}
    /\ ml_bits' = event_bits
    /\ event_bits' = {}
    /\ ml_pc' = FirstStage(event_bits)
    /\ UNCHANGED <<main_tasks_, mutex_, ml_tasks, ml_ret,
                   bgvars, bghist, mlhist, appvars>>

\* mutex_.lock(); tasks = std::move(main_tasks_); mutex_.unlock()
MainLoopTake ==
    /\ ml_pc = "sched"
    /\ mutex_ = "free"
    /\ ml_tasks' = main_tasks_
    /\ main_tasks_' = <<>>
    /\ ml_bits' = {}
    /\ ml_pc' = IF main_tasks_ = <<>> THEN "wait" ELSE "run"
    /\ UNCHANGED <<event_bits, mutex_, ml_ret,
                   bgvars, bghist, mlhist, appvars>>

\* the running closure goes on at `label`; "done": it returns to the for loop
MainContinue(label) ==
    /\ ml_ret' = "none"
    /\ IF label = "done"
         THEN /\ ml_tasks' = Tail(ml_tasks)
              /\ ml_pc' = IF Tail(ml_tasks) = <<>> THEN "wait" ELSE "run"
         ELSE /\ ml_pc' = label
              /\ UNCHANGED ml_tasks

Running(op) == ml_pc = "run" /\ Head(ml_tasks).op = op

\* a scheduler client's closure: its body is one step
OpaqueClosureRun ==
    /\ Running("opaque")
    /\ ml_log' = Append(ml_log, <<"run", Head(ml_tasks).id, "run">>)
    /\ MainContinue("done")
    /\ UNCHANGED <<main_tasks_, event_bits, mutex_, ml_bits, next_cid,
                   bgvars, bghist, appvars>>

(***************************************************************************)
(* Clients of the scheduler alone (SpecSched).  Schedule is split at the   *)
(* two things it does under mutex_, so that the main loop's wait/clear     *)
(* falls between the append and the bit.                                   *)
(***************************************************************************)
SchedClients == {"c1", "c2"}

ScheduleAppend(c) ==
    /\ mutex_ = "free"
    /\ next_cid <= MaxClosures
    /\ mutex_' = c
    /\ main_tasks_' = Append(main_tasks_, Closure("opaque", next_cid))
    /\ next_cid' = next_cid + 1
    /\ ml_log' = Append(ml_log, <<"append", next_cid, ml_pc>>)
    /\ UNCHANGED <<event_bits, ml_pc, ml_bits, ml_tasks, ml_ret,
                   bgvars, bghist, appvars>>

ScheduleSignal(c) ==
    /\ mutex_ = c
    /\ event_bits' = ScheduleSetBits(event_bits)
    /\ mutex_' = "free"
    /\ UNCHANGED <<main_tasks_, ml_pc, ml_bits, ml_tasks, ml_ret,
                   bgvars, bghist, mlhist, appvars>>

(***************************************************************************)
(* Application::SetDeviceState, run by thread t ("main": inside a closure  *)
(* of the main loop; "start": inside Application::Start).                  *)
(***************************************************************************)
\* mutant: the early return of SetDeviceState is lost
SetDeviceStateReturnsEarlyNever(state) == FALSE
\* lines 605-607: if (device_state_ == state) return
SetDeviceStateReturnsEarly(state) == device_state_ = state

\* lines 605-612: compare, assign, log, enter background_task_->WaitForCompletion()
SetDeviceStateCall(t, state) ==
    IF SetDeviceStateReturnsEarly(state)
      THEN UNCHANGED <<device_state_, sds_pc, sds_target, cvs>>
      ELSE /\ device_state_' = state
           /\ sds_pc' = [sds_pc EXCEPT ![t] = "wait"]
           /\ sds_target' = [sds_target EXCEPT ![t] = state]
           /\ cvs' = [cvs EXCEPT ![t] = "enter"]

\* SetDeviceState called by a closure of the main loop, which goes on at cont
MainSetDeviceState(state, cont) ==
    /\ SetDeviceStateCall("main", state)
    /\ IF SetDeviceStateReturnsEarly(state)
         THEN MainContinue(cont)
         ELSE ml_pc' = "sds" /\ ml_ret' = cont /\ UNCHANGED ml_tasks

\* SetDeviceState returns to its caller
SetDeviceStateReturn(t) ==
    IF t = "main"
      THEN MainContinue(ml_ret) /\ UNCHANGED st_pc
      ELSE /\ st_pc' = IF st_pc = "starting" THEN "setup" ELSE "done"
           /\ UNCHANGED <<ml_pc, ml_tasks, ml_ret>>

\* background_task_->WaitForCompletion() inside SetDeviceState (line 612)
SetDeviceStateWait(t) ==
    /\ sds_pc[t] = "wait"
    /\ cvs[t] = "enter"
    /\ IF WaitPredicate
         THEN /\ cvs' = [cvs EXCEPT ![t] = "none"]
              /\ sds_pc' = [sds_pc EXCEPT ![t] = "effects"]
         ELSE /\ cvs' = [cvs EXCEPT ![t] = "blocked"]
              /\ UNCHANGED sds_pc
    /\ UNCHANGED <<bg_main_tasks_, active_tasks_, bg_local, bg_pc, bghist,
                   mlvars, mlhist, device_state_, aborted_, keep_listening_,
                   audio_decode_queue_, sds_target, st_pc, vc_pc, ne_pc,
                   protocol_, ap_running, esp32s3, sidevars>>

\* Application::SetDecodeSampleRate, lines 652-665: the new value of
\* opus_decode_sample_rate_ (the decoder is rebuilt when it changes)
SetDecodeSampleRate(sample_rate) == sample_rate

\* Application::ResetDecoder: one critical section of mutex_
ResetDecoder(q) == <<>>

\* the decode queue after the switch of SetDeviceState(state)
SwitchDecodeQueue(state, q) ==
    IF state \in {kDeviceStateListening, kDeviceStateSpeaking}
      THEN ResetDecoder(q) ELSE q

\* audio_processor_.IsRunning() after the switch of SetDeviceState(state)
SwitchAudioProcessor(state, running) ==
    IF ~esp32s3 THEN running
    ELSE IF state = kDeviceStateListening THEN TRUE
    ELSE IF state \in {kDeviceStateUnknown, kDeviceStateIdle, kDeviceStateSpeaking}
      THEN FALSE
    ELSE running

\* mutant: the states are sent whether or not they differ from the cache
UpdateIotStatesSendsAlways(states, last) == TRUE
\* line 670: if (states != last_iot_states_)
UpdateIotStatesSends(states, last) == states # last

\* Application::UpdateIotStates, lines 667-674
UpdateIotStates ==
    IF UpdateIotStatesSends(iot_states, last_iot_states_)
      THEN /\ last_iot_states_' = iot_states
           /\ iot_sent' = iot_states
           /\ iot_sends' = (iot_sends + 1) % 2
           /\ UNCHANGED iot_states
      ELSE UNCHANGED iotvars

\* lines 614-649: led->OnStateChanged(), then switch (state): display,
\* decoder (ResetDecoder also sets last_output_time_ and enables the codec
\* output), encoder, audio processor, IoT states
SetDeviceStateSwitch(t) ==
    /\ sds_pc[t] = "effects"
    /\ sds_target[t] \in {kDeviceStateListening, kDeviceStateSpeaking}
         => mutex_ = "free"
    /\ audio_decode_queue_' = SwitchDecodeQueue(sds_target[t], audio_decode_queue_)
    /\ IF sds_target[t] \in {kDeviceStateListening, kDeviceStateSpeaking}
         THEN output_enabled' = TRUE /\ silence' = 0 /\ disable_calls' = 0
         ELSE UNCHANGED outvars
    /\ IF sds_target[t] = kDeviceStateListening
         THEN UpdateIotStates
         ELSE UNCHANGED iotvars
    /\ ap_running' = SwitchAudioProcessor(sds_target[t], ap_running)
    /\ sds_pc' = [sds_pc EXCEPT ![t] = "none"]
    /\ sds_target' = [sds_target EXCEPT ![t] = kDeviceStateUnknown]
    /\ SetDeviceStateReturn(t)
    /\ UNCHANGED <<bgvars, bghist, main_tasks_, event_bits, mutex_, ml_bits, mlhist, device_state_, aborted_, keep_listening_,
                   vc_pc, ne_pc, protocol_, esp32s3, calls,
                   opus_decode_sample_rate_, plvars>>

(***************************************************************************)
(* Application::Start, on the thread of app_main                           *)
(***************************************************************************)
CodecStarted == st_pc \notin {"begin", "starting"}

\* line 247: SetDeviceState(kDeviceStateStarting)
StartBegin ==
    /\ st_pc = "begin"
    /\ SetDeviceStateCall("start", kDeviceStateStarting)
    /\ st_pc' = IF device_state_ = kDeviceStateStarting THEN "setup" ELSE "starting"
    /\ UNCHANGED <<bg_main_tasks_, active_tasks_, bg_local, bg_pc, bghist,
                   mlvars, mlhist, aborted_, keep_listening_, audio_decode_queue_,
                   vc_pc, ne_pc, protocol_, ap_running, esp32s3, sidevars>>

\* lines 249-359: decoder at the codec's output rate, codec callbacks and
\* codec->Start() (which enables the output), main loop and version check
\* spawned, network, audio processor and wake word detection
StartSetup ==
    /\ st_pc = "setup"
    /\ opus_decode_sample_rate_' = CodecOutputRate
    /\ output_enabled' = TRUE
    /\ ml_pc' = "wait"
    /\ vc_pc' = "poll"
    /\ st_pc' = "proto"
    /\ UNCHANGED <<bgvars, bghist, main_tasks_, event_bits, mutex_, ml_bits,
                   ml_tasks, ml_ret, mlhist, device_state_, aborted_,
                   keep_listening_, audio_decode_queue_, sds_pc, sds_target, ne_pc,
                   protocol_, ap_running, esp32s3, calls, iotvars, silence,
                   disable_calls, plvars>>

\* lines 362-453: protocol_ constructed, its callbacks registered
StartProtocol ==
    /\ st_pc = "proto"
    /\ protocol_' = TRUE
    /\ st_pc' = "idle_call"
    /\ UNCHANGED <<bgvars, bghist, mlvars, mlhist, device_state_, aborted_,
                   keep_listening_, audio_decode_queue_, sds_pc, sds_target, vc_pc,
                   ne_pc, ap_running, esp32s3, sidevars>>

\* line 455: SetDeviceState(kDeviceStateIdle)
StartIdle ==
    /\ st_pc = "idle_call"
    /\ SetDeviceStateCall("start", kDeviceStateIdle)
    /\ st_pc' = IF SetDeviceStateReturnsEarly(kDeviceStateIdle)
                  THEN "done" ELSE "to_idle"
    /\ UNCHANGED <<bg_main_tasks_, active_tasks_, bg_local, bg_pc, bghist,
                   mlvars, mlhist, aborted_, keep_listening_, audio_decode_queue_,
                   vc_pc, ne_pc, protocol_, ap_running, esp32s3, sidevars>>

(***************************************************************************)
(* Audio pipelines, on the main loop                                       *)
(***************************************************************************)
\* Application::InputAudio.  With the audio processor and the wake word
\* detector the block is fed to them; without, an encode closure is submitted
\* while Listening.
InputAudio ==
    /\ ml_pc = "input"
    /\ IF ~esp32s3 /\ device_state_ = kDeviceStateListening
         THEN BgSchedule(BgTask("encode", "none", 0))
         ELSE UNCHANGED <<bg_main_tasks_, active_tasks_, cvs>>
    /\ ml_pc' = AfterInput(ml_bits)
    /\ ml_bits' = ml_bits \ {AUDIO_INPUT_READY_EVENT}
    /\ UNCHANGED <<bg_local, bg_pc, bghist, main_tasks_, event_bits, mutex_,
                   ml_tasks, ml_ret, mlhist, appvars>>

\* line 507: duration_cast<std::chrono::seconds>(now - last_output_time_),
\* which truncates; the argument is in half seconds
DurationSeconds(halves) == halves \div 2

\* lines 506-508: Idle, and more than max_silence_seconds since the last output
OutputAudioDisables ==
    /\ device_state_ = kDeviceStateIdle
    /\ DurationSeconds(silence) > max_silence_seconds

\* mutant: frames are discarded in every state but Speaking
OutputAudioDiscardsUnlessSpeaking == device_state_ # kDeviceStateSpeaking
\* mutant: the Listening test of OutputAudio is lost
OutputAudioDiscardsNever == FALSE
\* line 515: late packets are discarded while Listening
OutputAudioDiscards == device_state_ = kDeviceStateListening

\* Application::OutputAudio, lines 498-545.  The critical section of mutex_
\* (503-523) and background_task_->Schedule of the decode closure (525) are
\* one step: `opus` is a local, and no other thread's step reads what lies
\* between the two.
OutputAudio ==
    /\ ml_pc = "output"
    /\ mutex_ = "free"
    /\ IF audio_decode_queue_ = <<>>
         THEN /\ UNCHANGED <<audio_decode_queue_, bg_main_tasks_, active_tasks_, cvs>>
              /\ IF OutputAudioDisables
                   THEN /\ output_enabled' = FALSE
                        /\ disable_calls' = disable_calls + 1
                        /\ UNCHANGED silence
                   ELSE UNCHANGED outvars
         ELSE IF OutputAudioDiscards
         THEN /\ audio_decode_queue_' = <<>>
              /\ UNCHANGED <<bg_main_tasks_, active_tasks_, cvs, outvars>>
         ELSE /\ audio_decode_queue_' = Tail(audio_decode_queue_)
              /\ silence' = 0
              /\ disable_calls' = 0
              /\ UNCHANGED output_enabled
              /\ BgSchedule(BgTask("decode", Head(audio_decode_queue_), 0))
    /\ ml_pc' = AfterOutput(ml_bits)
    /\ ml_bits' = ml_bits \ {AUDIO_OUTPUT_READY_EVENT}
    /\ UNCHANGED <<bg_local, bg_pc, bghist, main_tasks_, event_bits, mutex_,
                   ml_tasks, ml_ret, mlhist, device_state_, aborted_,
                   keep_listening_, sds_pc, sds_target, st_pc, vc_pc, ne_pc,
                   protocol_, ap_running, esp32s3, calls, iotvars,
                   opus_decode_sample_rate_, plvars>>

(***************************************************************************)
(* The closures of OutputAudio and InputAudio, on the background worker    *)
(***************************************************************************)
\* line 526: if (aborted_) return
DecodeDrops == aborted_

\* decode closure, lines 526-541: test aborted_, decode (it may fail), resample
DecodeTaskRun ==
    /\ bg_pc = "task"
    /\ Head(bg_local).kind = "decode"
    /\ IF DecodeDrops
         THEN bg_pc' = "fin"
         ELSE \E decoded \in BOOLEAN : bg_pc' = IF decoded THEN "out" ELSE "fin"
    /\ UNCHANGED <<bg_main_tasks_, active_tasks_, bg_local, cvs, bghist,
                   mlvars, mlhist, appvars>>

\* decode closure, line 543: codec->OutputData(pcm)
DecodeTaskOutput ==
    /\ bg_pc = "out"
    /\ bg_pc' = "fin"
    /\ UNCHANGED <<bg_main_tasks_, active_tasks_, bg_local, cvs, bghist,
                   mlvars, mlhist, appvars>>

\* encode closure, lines 304-308 / 588-592: Encode, then Schedule(SendAudio)
EncodeTaskRun ==
    /\ bg_pc = "task"
    /\ Head(bg_local).kind = "encode"
    /\ AppSchedule(Closure("send_audio", 0))
    /\ bg_pc' = "fin"
    /\ UNCHANGED <<bg_main_tasks_, active_tasks_, bg_local, cvs, bghist,
                   mutex_, ml_pc, ml_bits, ml_tasks, ml_ret, mlhist,
                   appvars>>

(***************************************************************************)
(* The closures given to Application::Schedule, run by the main loop       *)
(***************************************************************************)
\* what a step of a closure leaves alone besides the variables it names
ClosureFrame ==
    UNCHANGED <<bg_main_tasks_, active_tasks_, bg_local, bg_pc, bghist, mutex_,
                ml_bits, mlhist, st_pc, vc_pc, ne_pc,
                protocol_, ap_running, esp32s3, iotvars,
                opus_decode_sample_rate_, plvars>>
NoSetDeviceState == UNCHANGED <<device_state_, sds_pc, sds_target, cvs>>

\* ToggleChatState's closure, lines 174-200
ToggleChatStateRun ==
    /\ Running("toggle")
    /\ calls' = <<>>
    /\ ClosureFrame
    /\ UNCHANGED outvars
    /\ UNCHANGED <<keep_listening_, audio_decode_queue_>>
    /\ IF ~protocol_
         THEN /\ MainContinue("done") /\ NoSetDeviceState
              /\ UNCHANGED <<main_tasks_, event_bits, aborted_>>
         ELSE IF device_state_ = kDeviceStateIdle
         THEN /\ MainSetDeviceState(kDeviceStateConnecting, "toggle_open")
              /\ UNCHANGED <<main_tasks_, event_bits, aborted_>>
         ELSE IF device_state_ = kDeviceStateSpeaking
         THEN \* AbortSpeaking(kAbortReasonNone)
              /\ aborted_' = TRUE
              /\ MainContinue("done") /\ NoSetDeviceState
              /\ UNCHANGED <<main_tasks_, event_bits>>
         ELSE \* Listening: protocol_->CloseAudioChannel(); otherwise nothing
              /\ MainContinue("done") /\ NoSetDeviceState
              /\ UNCHANGED <<main_tasks_, event_bits, aborted_>>

\* ToggleChatState's closure, lines 185-195: OpenAudioChannel() has returned ok
ToggleChatStateOpen ==
    /\ ml_pc = "toggle_open"
    /\ ClosureFrame
    /\ UNCHANGED outvars
    /\ UNCHANGED <<main_tasks_, event_bits, aborted_, audio_decode_queue_>>
    /\ \E ok \in BOOLEAN :
         /\ IF ok
              THEN /\ keep_listening_' = TRUE
                   /\ calls' = Append(calls, SEND_START_LISTENING_AUTO)
                   /\ MainSetDeviceState(kDeviceStateListening, "done")
              ELSE /\ UNCHANGED keep_listening_
                   /\ calls' = Append(calls, ALERT_OPEN_FAILED)
                   /\ MainSetDeviceState(kDeviceStateIdle, "done")

\* StartListening's closure, lines 207-230
StartListeningRun ==
    /\ Running("start_listening")
    /\ ClosureFrame
    /\ UNCHANGED outvars
    /\ UNCHANGED <<main_tasks_, event_bits, audio_decode_queue_>>
    /\ IF ~protocol_
         THEN /\ MainContinue("done") /\ NoSetDeviceState
              /\ calls' = <<>>
              /\ UNCHANGED <<aborted_, keep_listening_>>
         ELSE /\ keep_listening_' = FALSE
              /\ IF device_state_ = kDeviceStateIdle
                   THEN /\ UNCHANGED aborted_
                        /\ \E opened \in BOOLEAN :  \* protocol_->IsAudioChannelOpened()
                             IF ~opened
                               THEN /\ calls' = <<>>
                                    /\ MainSetDeviceState(kDeviceStateConnecting, "sl_open")
                               ELSE /\ calls' = <<SEND_START_LISTENING_MANUAL>>
                                    /\ MainSetDeviceState(kDeviceStateListening, "done")
                   ELSE IF device_state_ = kDeviceStateSpeaking
                   THEN \* AbortSpeaking, SendStartListening, then vTaskDelay(120 ms)
                        /\ aborted_' = TRUE
                        /\ calls' = <<SEND_START_LISTENING_MANUAL>>
                        /\ MainContinue("sl_delay") /\ NoSetDeviceState
                   ELSE /\ MainContinue("done") /\ NoSetDeviceState
                        /\ calls' = <<>>
                        /\ UNCHANGED aborted_

\* StartListening's closure, lines 216-223: OpenAudioChannel() has returned ok
StartListeningOpen ==
    /\ ml_pc = "sl_open"
    /\ ClosureFrame
    /\ UNCHANGED outvars
    /\ UNCHANGED <<main_tasks_, event_bits, aborted_, keep_listening_,
                   audio_decode_queue_>>
    /\ \E ok \in BOOLEAN :
         /\ IF ok THEN /\ calls' = Append(calls, SEND_START_LISTENING_MANUAL)
                       /\ MainSetDeviceState(kDeviceStateListening, "done")
                  ELSE /\ UNCHANGED calls
                       /\ MainSetDeviceState(kDeviceStateIdle, "sl_alert")

\* StartListening's closure, lines 218-219: Alert after SetDeviceState(Idle)
StartListeningAlert ==
    /\ ml_pc = "sl_alert"
    /\ ClosureFrame
    /\ UNCHANGED outvars
    /\ UNCHANGED <<main_tasks_, event_bits, aborted_, keep_listening_,
                   audio_decode_queue_>>
    /\ calls' = Append(calls, ALERT_OPEN_FAILED)
    /\ MainContinue("done") /\ NoSetDeviceState

\* StartListening's closure, line 229: after the delay
StartListeningDelay ==
    /\ ml_pc = "sl_delay"
    /\ UNCHANGED calls
    /\ ClosureFrame
    /\ UNCHANGED outvars
    /\ UNCHANGED <<main_tasks_, event_bits, aborted_, keep_listening_,
                   audio_decode_queue_>>
    /\ MainSetDeviceState(kDeviceStateListening, "done")

\* StopListening's closure, lines 237-240
StopListeningRun ==
    /\ Running("stop_listening")
    /\ calls' = <<>>
    /\ ClosureFrame
    /\ UNCHANGED outvars
    /\ UNCHANGED <<main_tasks_, event_bits, aborted_, keep_listening_,
                   audio_decode_queue_>>
    /\ IF device_state_ = kDeviceStateListening
         THEN MainSetDeviceState(kDeviceStateIdle, "done")
         ELSE MainContinue("done") /\ NoSetDeviceState

\* OnWakeWordDetected's closure, lines 329-355
WakeWordRun ==
    /\ Running("wake_word")
    /\ calls' = <<>>
    /\ ClosureFrame
    /\ UNCHANGED outvars
    /\ UNCHANGED <<main_tasks_, event_bits, keep_listening_,
                   audio_decode_queue_>>
    /\ IF device_state_ = kDeviceStateIdle
         THEN /\ MainSetDeviceState(kDeviceStateConnecting, "ww_open")
              /\ UNCHANGED aborted_
         ELSE IF device_state_ = kDeviceStateSpeaking
         THEN \* AbortSpeaking(kAbortReasonWakeWordDetected)
              /\ aborted_' = TRUE
              /\ MainContinue("done") /\ NoSetDeviceState
         ELSE /\ MainContinue("done") /\ NoSetDeviceState
              /\ UNCHANGED aborted_

\* OnWakeWordDetected's closure, lines 331-349: OpenAudioChannel() has returned ok
WakeWordOpen ==
    /\ ml_pc = "ww_open"
    /\ ClosureFrame
    /\ UNCHANGED outvars
    /\ UNCHANGED <<main_tasks_, event_bits, aborted_, audio_decode_queue_>>
    /\ \E ok \in BOOLEAN :
         /\ IF ok
              THEN /\ keep_listening_' = TRUE
                   /\ calls' = Append(calls, SEND_WAKE_WORD_DETECTED)
                   /\ MainSetDeviceState(kDeviceStateListening, "done")
              ELSE /\ UNCHANGED <<keep_listening_, calls>>
                   /\ MainSetDeviceState(kDeviceStateIdle, "done")

\* mutant: tts start is honoured from Idle only
TtsStartAcceptsIdleOnly == device_state_ = kDeviceStateIdle
\* mutant: tts start moves to Speaking from any state
TtsStartAcceptsAlways == TRUE
\* line 409: tts start is honoured from Idle and from Listening
TtsStartAccepts ==
    device_state_ = kDeviceStateIdle \/ device_state_ = kDeviceStateListening

\* the closure of tts state "start", lines 408-411
TtsStartRun ==
    /\ Running("tts_start")
    /\ calls' = <<>>
    /\ ClosureFrame
    /\ UNCHANGED outvars
    /\ UNCHANGED <<main_tasks_, event_bits, keep_listening_,
                   audio_decode_queue_>>
    /\ aborted_' = FALSE
    /\ IF TtsStartAccepts
         THEN MainSetDeviceState(kDeviceStateSpeaking, "done")
         ELSE MainContinue("done") /\ NoSetDeviceState

\* mutant: tts stop is honoured in every state
TtsStopProceedsAlways == TRUE
\* line 415: tts stop is honoured while Speaking
TtsStopProceeds == device_state_ = kDeviceStateSpeaking

\* the closure of tts state "stop", lines 415-416: enter WaitForCompletion
TtsStopRun ==
    /\ Running("tts_stop")
    /\ calls' = <<>>
    /\ ClosureFrame
    /\ UNCHANGED outvars
    /\ UNCHANGED <<main_tasks_, event_bits, aborted_, keep_listening_,
                   audio_decode_queue_, device_state_, sds_pc,
                   sds_target>>
    /\ IF TtsStopProceeds
         THEN /\ cvs' = [cvs EXCEPT !["main"] = "enter"]
              /\ MainContinue("tts_stop_wait")
         ELSE /\ MainContinue("done")
              /\ UNCHANGED cvs

\* a WaitForCompletion() called by a closure outside SetDeviceState
MainWait(from, to) ==
    /\ ml_pc = from
    /\ UNCHANGED calls
    /\ cvs["main"] = "enter"
    /\ ClosureFrame
    /\ UNCHANGED outvars
    /\ UNCHANGED <<main_tasks_, event_bits, aborted_, keep_listening_,
                   audio_decode_queue_, device_state_, sds_pc,
                   sds_target>>
    /\ IF WaitPredicate
         THEN /\ cvs' = [cvs EXCEPT !["main"] = "none"]
              /\ MainContinue(to)
         ELSE /\ cvs' = [cvs EXCEPT !["main"] = "blocked"]
              /\ UNCHANGED <<ml_pc, ml_tasks, ml_ret>>

\* line 416: background_task_->WaitForCompletion()
TtsStopWait == MainWait("tts_stop_wait", "tts_stop_go")

\* lines 417-422: back to Listening or to Idle
TtsStopGo ==
    /\ ml_pc = "tts_stop_go"
    /\ ClosureFrame
    /\ UNCHANGED outvars
    /\ UNCHANGED <<main_tasks_, event_bits, aborted_, keep_listening_,
                   audio_decode_queue_>>
    /\ IF keep_listening_
         THEN /\ calls' = Append(calls, SEND_START_LISTENING_AUTO)
              /\ MainSetDeviceState(kDeviceStateListening, "done")
         ELSE /\ UNCHANGED calls
              /\ MainSetDeviceState(kDeviceStateIdle, "done")

\* OnAudioChannelClosed's closure, lines 396-398
ChannelClosedRun ==
    /\ Running("channel_closed")
    /\ calls' = <<>>
    /\ ClosureFrame
    /\ UNCHANGED outvars
    /\ UNCHANGED <<main_tasks_, event_bits, aborted_, keep_listening_,
                   audio_decode_queue_>>
    /\ MainSetDeviceState(kDeviceStateIdle, "done")

\* the closure that sends an encoded packet, lines 305-307 / 589-591
SendAudioRun ==
    /\ Running("send_audio")
    /\ calls' = <<>>
    /\ ClosureFrame
    /\ UNCHANGED outvars
    /\ UNCHANGED <<main_tasks_, event_bits, aborted_, keep_listening_,
                   audio_decode_queue_>>
    /\ MainContinue("done") /\ NoSetDeviceState

\* CheckNewVersion's closure, line 85: SetDeviceState(kDeviceStateUpgrading)
UpgradeRun ==
    /\ Running("upgrade")
    /\ calls' = <<>>
    /\ ClosureFrame
    /\ UNCHANGED outvars
    /\ UNCHANGED <<main_tasks_, event_bits, aborted_, keep_listening_,
                   audio_decode_queue_>>
    /\ MainSetDeviceState(kDeviceStateUpgrading, "up_clear")

\* CheckNewVersion's closure, lines 88-99: output off, decode queue cleared,
\* enter WaitForCompletion
UpgradeClear ==
    /\ ml_pc = "up_clear"
    /\ mutex_ = "free"
    /\ ClosureFrame
    /\ output_enabled' = FALSE
    /\ UNCHANGED <<calls, silence, disable_calls>>
    /\ UNCHANGED <<main_tasks_, event_bits, aborted_, keep_listening_,
                   device_state_, sds_pc, sds_target>>
    /\ audio_decode_queue_' = <<>>
    /\ cvs' = [cvs EXCEPT !["main"] = "enter"]
    /\ MainContinue("up_wait")

\* CheckNewVersion's closure, lines 99-117: WaitForCompletion, then the
\* upgrade, which ends in a restart: the main loop runs nothing more
UpgradeWait == MainWait("up_wait", "halt")

(***************************************************************************)
(* The other threads: codec callbacks, user controls, wake word detector,  *)
(* audio processor, transport callbacks, CheckNewVersion                   *)
(***************************************************************************)
\* what a Schedule() from another thread leaves alone
ScheduleFrame ==
    UNCHANGED <<bgvars, bghist, mutex_, ml_pc, ml_bits, ml_tasks, ml_ret,
                mlhist, device_state_, aborted_, keep_listening_,
                audio_decode_queue_, sds_pc, sds_target, st_pc, ne_pc, protocol_,
                ap_running, esp32s3, sidevars>>

\* microphone blocks in flight: encode closures on the executor and
\* SendAudio closures not yet run by the main loop
IsEncode(task) == task.kind = "encode"
IsSendAudio(c) == c.op = "send_audio"
PacketsInFlight ==
    Len(SelectSeq(bg_main_tasks_ \o bg_local, IsEncode))
      + Len(SelectSeq(main_tasks_ \o ml_tasks, IsSendAudio))

\* frames in flight: in the decode queue, still to be queued by PlayLocalFile,
\* or in a decode closure on the executor
IsDecode(task) == task.kind = "decode"
FramesInFlight ==
    Len(audio_decode_queue_) + ne_pc
      + Len(SelectSeq(bg_main_tasks_ \o bg_local, IsDecode))

\* codec->OnInputReady callback, lines 266-270.  The bit is latched until the
\* loop's next xEventGroupWaitBits, the only place that reads it: a bit set
\* while the loop is busy is one set when the loop is back at the wait.
OnInputReady ==
    /\ CodecStarted
    /\ ml_pc = "wait"
    /\ AUDIO_INPUT_READY_EVENT \notin event_bits
    /\ esp32s3 \/ PacketsInFlight < MaxPackets
    /\ event_bits' = event_bits \cup {AUDIO_INPUT_READY_EVENT}
    /\ UNCHANGED <<main_tasks_, vc_pc>>
    /\ ScheduleFrame

\* codec->OnOutputReady callback, lines 271-275
OnOutputReady ==
    /\ CodecStarted
    /\ ml_pc = "wait"
    /\ AUDIO_OUTPUT_READY_EVENT \notin event_bits
    /\ disable_calls < MaxDisables
    /\ event_bits' = event_bits \cup {AUDIO_OUTPUT_READY_EVENT}
    /\ UNCHANGED <<main_tasks_, vc_pc>>
    /\ ScheduleFrame

\* Application::ToggleChatState / StartListening / StopListening, called by
\* the board's button handlers: Schedule(closure)
UserControl ==
    /\ CodecStarted
    /\ Len(main_tasks_) + Len(ml_tasks) < MaxQueue
    /\ \E op \in {"toggle", "start_listening", "stop_listening"} :
         AppSchedule(Closure(op, 0))
    /\ UNCHANGED <<vc_pc>>
    /\ ScheduleFrame

\* wake_word_detect_.OnWakeWordDetected callback, lines 327-328
OnWakeWordDetected ==
    /\ esp32s3
    /\ st_pc \in {"proto", "idle_call", "to_idle", "done"}
    /\ Len(main_tasks_) + Len(ml_tasks) < MaxQueue
    /\ AppSchedule(Closure("wake_word", 0))
    /\ UNCHANGED <<vc_pc>>
    /\ ScheduleFrame

\* audio_processor_.OnOutput callback, lines 302-310
AudioProcessorOnOutput ==
    /\ esp32s3
    /\ ap_running
    /\ PacketsInFlight < MaxPackets
    /\ BgSchedule(BgTask("encode", "none", 0))
    /\ UNCHANGED <<bg_local, bg_pc, bghist, mlvars, mlhist, device_state_,
                   aborted_, keep_listening_, audio_decode_queue_, sds_pc,
                   sds_target, st_pc, vc_pc, ne_pc, protocol_,
                   ap_running, esp32s3, sidevars>>

\* mutant: every incoming frame is queued
IncomingAudioAcceptsAlways == TRUE
\* line 377: frames are queued while Speaking
IncomingAudioAccepts == device_state_ = kDeviceStateSpeaking

\* protocol_->OnIncomingAudio callback, lines 375-380: a frame that is not
\* queued changes nothing
OnIncomingAudio ==
    /\ protocol_
    /\ mutex_ = "free"
    /\ FramesInFlight < MaxFrames
    /\ audio_decode_queue_' = IF IncomingAudioAccepts
                                THEN Append(audio_decode_queue_, "net")
                                ELSE audio_decode_queue_
    /\ UNCHANGED <<bgvars, bghist, mlvars, mlhist, device_state_, aborted_,
                   keep_listening_, sds_pc, sds_target, st_pc, vc_pc, ne_pc,
                   protocol_, ap_running, esp32s3, sidevars>>

\* protocol_->OnIncomingJson callback, type "tts", state "start" / "stop"
OnIncomingJson ==
    /\ protocol_
    /\ Len(main_tasks_) + Len(ml_tasks) < MaxQueue
    /\ \E op \in {"tts_start", "tts_stop"} : AppSchedule(Closure(op, 0))
    /\ UNCHANGED <<vc_pc>>
    /\ ScheduleFrame

\* protocol_->OnAudioChannelClosed callback, lines 393-400: the transport
\* reports the channel closed (by CloseAudioChannel, the peer or the network)
OnAudioChannelClosed ==
    /\ protocol_
    /\ Len(main_tasks_) + Len(ml_tasks) < MaxQueue
    /\ AppSchedule(Closure("channel_closed", 0))
    /\ UNCHANGED vc_pc
    /\ ScheduleFrame

\* half a second passes on std::chrono::steady_clock
ClockTick ==
    /\ CodecStarted
    /\ silence < MaxSilence
    /\ silence' = silence + 1
    /\ UNCHANGED <<bgvars, bghist, mlvars, mlhist, device_state_, aborted_,
                   keep_listening_, audio_decode_queue_, sds_pc, sds_target,
                   st_pc, vc_pc, ne_pc, protocol_, ap_running, esp32s3, calls,
                   iotvars, output_enabled, disable_calls,
                   opus_decode_sample_rate_, plvars>>

\* protocol_->OnAudioChannelOpened callback, lines 381-392: decode sample
\* rate of the server, last_iot_states_.clear(), descriptors sent
OnAudioChannelOpened ==
    /\ protocol_
    /\ opus_decode_sample_rate_' = SetDecodeSampleRate(ServerSampleRate)
    /\ last_iot_states_' = ""
    /\ UNCHANGED <<bgvars, bghist, mlvars, mlhist, device_state_, aborted_,
                   keep_listening_, audio_decode_queue_, sds_pc, sds_target,
                   st_pc, vc_pc, ne_pc, protocol_, ap_running, esp32s3, calls,
                   iot_sent, iot_sends, iot_states, outvars, plvars>>

\* protocol_->OnIncomingJson callback, type "iot", lines 443-451:
\* thing_manager.Invoke(command) changes the state of a thing
ThingInvoke ==
    /\ protocol_
    /\ \E states \in IotPayloads \ {iot_states} : iot_states' = states
    /\ UNCHANGED <<bgvars, bghist, mlvars, mlhist, device_state_, aborted_,
                   keep_listening_, audio_decode_queue_, sds_pc, sds_target,
                   st_pc, vc_pc, ne_pc, protocol_, ap_running, esp32s3, calls,
                   last_iot_states_, iot_sent, iot_sends, outvars,
                   opus_decode_sample_rate_, plvars>>

\* protocol_->OnNetworkError callback, lines 372-374, with a message that
\* names a prompt: Alert calls PlayLocalFile, which sets the sample rate
OnNetworkError ==
    /\ protocol_
    /\ ne_pc = 0
    /\ FramesInFlight + PromptLen <= MaxFrames
    /\ ne_pc' = PromptLen
    /\ opus_decode_sample_rate_' = SetDecodeSampleRate(16000)
    /\ UNCHANGED <<bgvars, bghist, mlvars, mlhist, device_state_, aborted_,
                   keep_listening_, audio_decode_queue_, sds_pc, sds_target,
                   st_pc, vc_pc, protocol_, ap_running,
                   esp32s3, calls, iotvars, outvars, plvars>>

\* PlayLocalFile, lines 154-168: one record parsed and queued under mutex_
PlayLocalFilePush ==
    /\ ne_pc > 0
    /\ mutex_ = "free"
    /\ audio_decode_queue_' = Append(audio_decode_queue_, "p3")
    /\ ne_pc' = ne_pc - 1
    /\ UNCHANGED <<bgvars, bghist, mlvars, mlhist, device_state_, aborted_,
                   keep_listening_, sds_pc, sds_target, st_pc, vc_pc, protocol_,
                   ap_running, esp32s3, sidevars>>

(***************************************************************************)
(* PlayLocalFile over the bytes of a prompt buffer.  struct BinaryProtocol3 *)
(* is declared in the protocol's header: its size and the place of          *)
(* payload_size are those of the format of the prompt files.                *)
(***************************************************************************)
\* sizeof(BinaryProtocol3); payload[] begins at this offset
HeaderSize == 16
\* offsetof(BinaryProtocol3, payload_size)
PayloadSizeOffset == 2
\* payload sizes and payload bytes of the records of a prompt buffer
PayloadSizes == {1, 280}
ByteValues == {1, 2}

\* a payload of n bytes b
Fill(n, b) == [i \in 1..n |-> b]
Payloads == {Fill(n, b) : n \in PayloadSizes, b \in ByteValues}

\* one record of a prompt file: the header, payload_size in network byte
\* order, then the payload
Record(payload) ==
    [i \in 1..HeaderSize |->
        IF i = PayloadSizeOffset + 1 THEN Len(payload) \div 256
        ELSE IF i = PayloadSizeOffset + 2 THEN Len(payload) % 256
        ELSE 0] \o payload

\* the buffer made of the records of these payloads
RECURSIVE PromptBuffer(_)
PromptBuffer(recs) ==
    IF recs = <<>> THEN <<>> ELSE Record(Head(recs)) \o PromptBuffer(Tail(recs))

\* the well-formed prompts: sequences of at most MaxRecords records
Prompts == UNION {[1..n -> Payloads] : n \in 0..MaxRecords}

\* mutant: the high byte of payload_size is dropped
NtohsLowByte(hi, lo) == lo
\* line 159: ntohs of the two bytes of payload_size as they lie in memory
Ntohs(hi, lo) == hi * 256 + lo

\* the byte at data + i (i from 0); a read past the buffer yields some byte
Peek(data, i, oob) == IF i < Len(data) THEN data[i + 1] ELSE oob

\* Alert with a message that has a prompt, lines 139-145, and the head of
\* PlayLocalFile, lines 150-154: SetDecodeSampleRate(16000), p = data
PlayLocalFileCall ==
    /\ protocol_
    /\ pl_p = -1
    /\ \E recs \in Prompts :
         /\ Len(audio_decode_queue_) + Len(recs) <= MaxPromptQueue
         /\ pl_recs' = recs
         /\ pl_data' = PromptBuffer(recs)
    /\ pl_p' = 0
    /\ pl_base' = Len(audio_decode_queue_)
    /\ opus_decode_sample_rate_' = SetDecodeSampleRate(16000)
    /\ UNCHANGED <<bgvars, bghist, mlvars, mlhist, device_state_, aborted_,
                   keep_listening_, audio_decode_queue_, sds_pc, sds_target,
                   st_pc, vc_pc, ne_pc, protocol_, ap_running, esp32s3, calls,
                   iotvars, outvars>>

\* one turn of the loop of PlayLocalFile, lines 154-168: the header is read
\* at p, the payload is copied, p moves past the record, the payload is
\* appended to the decode queue under mutex_
PlayLocalFileRecord ==
    /\ pl_p >= 0
    /\ pl_p < Len(pl_data)
    /\ mutex_ = "free"
    /\ \E oob \in ByteValues :
         LET payload_size == Ntohs(Peek(pl_data, pl_p + PayloadSizeOffset, oob),
                                   Peek(pl_data, pl_p + PayloadSizeOffset + 1, oob))
             opus == [i \in 1..payload_size |->
                        Peek(pl_data, pl_p + HeaderSize + i - 1, oob)]
         IN  /\ audio_decode_queue_' = Append(audio_decode_queue_, opus)
             /\ pl_p' = pl_p + HeaderSize + payload_size
    /\ UNCHANGED <<bgvars, bghist, mlvars, mlhist, device_state_, aborted_,
                   keep_listening_, sds_pc, sds_target, st_pc, vc_pc, ne_pc,
                   protocol_, ap_running, esp32s3, calls, iotvars, outvars,
                   opus_decode_sample_rate_, pl_recs, pl_data, pl_base>>

\* line 154: p < data + size fails, PlayLocalFile returns
PlayLocalFileReturn ==
    /\ pl_p >= Len(pl_data)
    /\ pl_p' = -1
    /\ UNCHANGED <<bgvars, bghist, mlvars, mlhist, device_state_, aborted_,
                   keep_listening_, audio_decode_queue_, sds_pc, sds_target,
                   st_pc, vc_pc, ne_pc, protocol_, ap_running, esp32s3, calls,
                   iotvars, outvars, opus_decode_sample_rate_, pl_recs,
                   pl_data, pl_base>>

\* CheckNewVersion, lines 73-83: a new version exists and the poll saw Idle;
\* Schedule(upgrade closure)
CheckNewVersionSchedule ==
    /\ vc_pc = "poll"
    /\ device_state_ = kDeviceStateIdle
    /\ AppSchedule(Closure("upgrade", 0))
    /\ vc_pc' = "done"
    /\ ScheduleFrame

(***************************************************************************)
(* Initial state: after Application::Application() (which constructs the   *)
(* BackgroundTask and so starts its worker), before Application::Start().  *)
(***************************************************************************)
Init ==
    /\ bg_main_tasks_ = <<>>
    /\ active_tasks_ = 0
    /\ bg_local = <<>>
    /\ bg_pc = "wait"
    /\ cvs = [t \in CvThreads |-> IF t = "worker" THEN "enter" ELSE "none"]
    /\ bg_log = <<>>
    /\ next_id = 1
    /\ main_tasks_ = <<>>
    /\ event_bits = {}
    /\ mutex_ = "free"
    /\ ml_pc = "off"
    /\ ml_bits = {}
    /\ ml_tasks = <<>>
    /\ ml_ret = "none"
    /\ ml_log = <<>>
    /\ next_cid = 1
    /\ device_state_ = kDeviceStateUnknown
    /\ aborted_ = FALSE
    /\ keep_listening_ = FALSE
    /\ audio_decode_queue_ = <<>>
    /\ sds_pc = [t \in SdsThreads |-> "none"]
    /\ sds_target = [t \in SdsThreads |-> kDeviceStateUnknown]
    /\ st_pc = "begin"
    /\ vc_pc = "off"
    /\ ne_pc = 0
    /\ protocol_ = FALSE
    /\ ap_running = FALSE
    /\ esp32s3 \in BOOLEAN
    /\ calls = <<>>
    /\ last_iot_states_ = ""
    /\ iot_sent = ""
    /\ iot_sends = 0
    /\ iot_states = "s1"
    /\ output_enabled = FALSE
    /\ silence = 0
    /\ disable_calls = 0
    /\ opus_decode_sample_rate_ = 0
    /\ pl_recs = <<>>
    /\ pl_data = <<>>
    /\ pl_p = -1
    /\ pl_base = 0

InitBG == Init /\ esp32s3 = FALSE

NextBG ==
    \/ ClientSchedule
    \/ ClientWaitCall
    \/ ClientWaitReturn
    \/ ClientWaitBlock
    \/ BackgroundTaskLoopTake
    \/ OpaqueTaskRun
    \/ BackgroundTaskFinish

SpecBG == InitBG /\ [][NextBG]_vars

(***************************************************************************)
(* The scheduler alone: Application::Start up to the spawn of the main     *)
(* loop, the main loop, and threads that call Application::Schedule.       *)
(***************************************************************************)
NextSched ==
    \/ StartBegin
    \/ SetDeviceStateWait("start")
    \/ SetDeviceStateSwitch("start")
    \/ StartSetup
    \/ \E c \in SchedClients : ScheduleAppend(c)
    \/ \E c \in SchedClients : ScheduleSignal(c)
    \/ MainLoopWait
    \/ MainLoopTake
    \/ OpaqueClosureRun

SpecSched == InitBG /\ [][NextSched]_vars

\* every thread is scheduled again and again; no closure blocks forever
FairSched ==
    /\ SpecSched
    /\ WF_vars(StartBegin)
    /\ WF_vars(SetDeviceStateWait("start"))
    /\ WF_vars(SetDeviceStateSwitch("start"))
    /\ WF_vars(StartSetup)
    /\ \A c \in SchedClients : WF_vars(ScheduleSignal(c))
    /\ WF_vars(MainLoopWait)
    /\ WF_vars(MainLoopTake)
    /\ WF_vars(OpaqueClosureRun)

(***************************************************************************)
(* The whole program                                                       *)
(***************************************************************************)
Worker ==
    \/ BackgroundTaskLoopTake
    \/ DecodeTaskRun
    \/ DecodeTaskOutput
    \/ EncodeTaskRun
    \/ BackgroundTaskFinish

StartThread ==
    \/ StartBegin
    \/ StartSetup
    \/ StartProtocol
    \/ StartIdle
    \/ SetDeviceStateWait("start")
    \/ SetDeviceStateSwitch("start")

\* the loop itself and SetDeviceState called by its closures
MainLoopCore ==
    \/ MainLoopWait
    \/ MainLoopTake
    \/ SetDeviceStateWait("main")
    \/ SetDeviceStateSwitch("main")

\* the closures of the user controls and of the transport's messages
ControlClosures ==
    \/ ToggleChatStateRun
    \/ ToggleChatStateOpen
    \/ StartListeningRun
    \/ StartListeningOpen
    \/ StartListeningAlert
    \/ StartListeningDelay
    \/ StopListeningRun
    \/ TtsStartRun
    \/ TtsStopRun
    \/ TtsStopWait
    \/ TtsStopGo
    \/ ChannelClosedRun

WakeWordClosures ==
    \/ WakeWordRun
    \/ WakeWordOpen

UpgradeClosure ==
    \/ UpgradeRun
    \/ UpgradeClear
    \/ UpgradeWait

MainLoop ==
    \/ MainLoopCore
    \/ InputAudio
    \/ OutputAudio
    \/ ControlClosures
    \/ WakeWordClosures
    \/ SendAudioRun
    \/ UpgradeClosure

\* the threads that only call Schedule with a control closure
ControlEvents ==
    \/ UserControl
    \/ OnIncomingJson
    \/ OnAudioChannelClosed

Environment ==
    \/ OnInputReady
    \/ OnOutputReady
    \/ ControlEvents
    \/ OnWakeWordDetected
    \/ AudioProcessorOnOutput
    \/ OnIncomingAudio
    \/ OnNetworkError
    \/ PlayLocalFilePush
    \/ CheckNewVersionSchedule

Next == Worker \/ StartThread \/ MainLoop \/ Environment

Spec == Init /\ [][Next]_vars

(***************************************************************************)
(* The control path alone: start-up, the main loop and every closure that  *)
(* calls SetDeviceState, in both builds, with the audio pipelines quiet    *)
(* (no codec tick, no frame, the executor idle).                           *)
(***************************************************************************)
NextControl ==
    \/ StartThread
    \/ BackgroundTaskLoopTake
    \/ MainLoopCore
    \/ ControlClosures
    \/ WakeWordClosures
    \/ UpgradeClosure
    \/ ControlEvents
    \/ OnWakeWordDetected
    \/ CheckNewVersionSchedule

SpecControl == Init /\ [][NextControl]_vars

(***************************************************************************)
(* The playback path: start-up, the main loop with OutputAudio, the        *)
(* control closures, the decode closures on the worker, the transport and  *)
(* PlayLocalFile; the microphone path is quiet and no upgrade is pending.  *)
(* OutputAudio has no build-dependent code: the build is the one without   *)
(* the audio processor.                                                    *)
(***************************************************************************)
NextPlayback ==
    \/ StartThread
    \/ BackgroundTaskLoopTake
    \/ DecodeTaskRun
    \/ DecodeTaskOutput
    \/ BackgroundTaskFinish
    \/ MainLoopCore
    \/ OutputAudio
    \/ ControlClosures
    \/ ControlEvents
    \/ OnOutputReady
    \/ OnIncomingAudio
    \/ OnNetworkError
    \/ PlayLocalFilePush

SpecPlayback == InitBG /\ [][NextPlayback]_vars

(***************************************************************************)
(* IoT state publishing: the control path of the build without the audio   *)
(* processor, the transport opening audio channels, and IoT commands that  *)
(* change the state of the things.                                         *)
(***************************************************************************)
NextIot ==
    \/ StartThread
    \/ BackgroundTaskLoopTake
    \/ MainLoopCore
    \/ ControlClosures
    \/ ControlEvents
    \/ OnAudioChannelOpened
    \/ ThingInvoke

SpecIot == InitBG /\ [][NextIot]_vars

(***************************************************************************)
(* The silence timeout: start-up, the main loop with OutputAudio and the   *)
(* codec's output ticks, prompts played by PlayLocalFile and decoded on the *)
(* worker, and the clock.                                                  *)
(***************************************************************************)
NextSilence ==
    \/ StartThread
    \/ BackgroundTaskLoopTake
    \/ DecodeTaskRun
    \/ DecodeTaskOutput
    \/ BackgroundTaskFinish
    \/ MainLoopWait
    \/ OutputAudio
    \/ OnOutputReady
    \/ OnNetworkError
    \/ PlayLocalFilePush
    \/ ClockTick

SpecSilence == InitBG /\ [][NextSilence]_vars

(***************************************************************************)
(* The waits of the main loop: start-up, the worker with decode and encode *)
(* closures, the main loop with OutputAudio and the control closures, and   *)
(* the threads that submit to the executor or to the scheduler while the    *)
(* main loop waits (the audio processor of the ESP32-S3 build, the user     *)
(* controls, the transport).  Both builds.                                  *)
(***************************************************************************)
NextWait ==
    \/ StartThread
    \/ Worker
    \/ MainLoopCore
    \/ OutputAudio
    \/ ControlClosures
    \/ SendAudioRun
    \/ ControlEvents
    \/ OnOutputReady
    \/ OnIncomingAudio
    \/ AudioProcessorOnOutput

SpecWait == Init /\ [][NextWait]_vars

\* the worker is scheduled again and again and every closure it runs
\* terminates; a thread inside WaitForCompletion is scheduled when it can run
FairWait ==
    /\ SpecWait
    /\ WF_vars(BackgroundTaskLoopTake)
    /\ WF_vars(DecodeTaskRun)
    /\ WF_vars(DecodeTaskOutput)
    /\ WF_vars(EncodeTaskRun)
    /\ WF_vars(BackgroundTaskFinish)
    /\ WF_vars(SetDeviceStateWait("main"))
    /\ WF_vars(TtsStopWait)

(***************************************************************************)
(* The decoder: start-up, prompts queued by PlayLocalFile, OutputAudio and  *)
(* the decode closures on the worker, and audio channels opened by the      *)
(* transport.                                                               *)
(***************************************************************************)
NextDecoder ==
    \/ StartThread
    \/ BackgroundTaskLoopTake
    \/ DecodeTaskRun
    \/ DecodeTaskOutput
    \/ BackgroundTaskFinish
    \/ MainLoopWait
    \/ OutputAudio
    \/ OnOutputReady
    \/ OnNetworkError
    \/ PlayLocalFilePush
    \/ OnAudioChannelOpened

SpecDecoder == InitBG /\ [][NextDecoder]_vars

(***************************************************************************)
(* PlayLocalFile alone: start-up, prompts played on the transport's thread  *)
(* and audio channels opened, which set the decode sample rate.  Nothing    *)
(* consumes the decode queue.                                               *)
(***************************************************************************)
NextPrompt ==
    \/ StartThread
    \/ OnAudioChannelOpened
    \/ PlayLocalFileCall
    \/ PlayLocalFileRecord
    \/ PlayLocalFileReturn

SpecPrompt == InitBG /\ [][NextPrompt]_vars

(***************************************************************************)
(* Properties of the executor alone (SpecBG).                              *)
(***************************************************************************)
IsRun(e) == e[1] \in {"start", "finish"}
\* ids with a given kind of event among the first k events of the log
IdsBefore(log, kind, k) == {log[i][2] : i \in {j \in 1..(k - 1) : log[j][1] = kind}}
TaskIds(q) == [i \in 1..Len(q) |-> q[i].id]
Iota(n) == [i \in 1..n |-> i]

\* C4: whenever WaitForCompletion has returned, every closure submitted before
\* that return had finished before it: nothing was pending in main_tasks_ and
\* nothing was held or being run by the worker at the moment of the return.
C4_WaitReturnsOnlyWhenIdle ==
    \A k \in 1..Len(bg_log) :
        bg_log[k][1] = "wait_return" =>
            IdsBefore(bg_log, "submit", k) = IdsBefore(bg_log, "finish", k)

\* C4 witness: a WaitForCompletion call that returned after a closure finished
\* while the caller was inside the call.
C4_Witness ==
    \E i, j, k \in 1..Len(bg_log) :
        /\ i < j /\ j < k
        /\ bg_log[i][1] = "wait_call"
        /\ bg_log[j][1] = "finish"
        /\ bg_log[k][1] = "wait_return"
        /\ \A m \in (i + 1)..(k - 1) : bg_log[m][1] # "wait_call"

\* C5: closures start and finish one at a time in the order of their
\* submission (ids are given in submission order), and every submitted closure
\* is in exactly one place: finished, held by the worker, or pending.
C5_SubmissionOrder ==
    LET r == SelectSeq(bg_log, IsRun)
        nfin == Len(r) \div 2
    IN  /\ \A i \in 1..Len(r) :
              r[i] = <<IF i % 2 = 1 THEN "start" ELSE "finish", (i + 1) \div 2>>
        /\ Iota(nfin) \o TaskIds(bg_local) \o TaskIds(bg_main_tasks_)
              = Iota(next_id - 1)

\* C5 witness: closure b was submitted while the worker was running closure a
\* of a batch it had taken, and b has finished.
C5_Witness ==
    \E i, j, k, l \in 1..Len(bg_log) :
        /\ i < j /\ j < k /\ k < l
        /\ bg_log[i][1] = "start"
        /\ bg_log[j][1] = "submit"
        /\ bg_log[k] = <<"finish", bg_log[i][2]>>
        /\ bg_log[l] = <<"finish", bg_log[j][2]>>

(***************************************************************************)
(* Properties of the scheduler alone (SpecSched, FairSched).               *)
(***************************************************************************)
IsRunEvent(e) == e[1] = "run"
EventIds(log) == [i \in 1..Len(log) |-> log[i][2]]
HasRun(id) == \E i \in 1..Len(ml_log) : ml_log[i] = <<"run", id, "run">>

\* closures run once each, in the order of their appends; none is queued
\* with no SCHEDULE bit on its way to the main loop
ScheduleConserves ==
    /\ EventIds(SelectSeq(ml_log, IsRunEvent)) \o TaskIds(ml_tasks)
          \o TaskIds(main_tasks_) = Iota(next_cid - 1)
    /\ (main_tasks_ # <<>> /\ mutex_ = "free" /\ ml_pc # "off")
          => SCHEDULE_EVENT \in (event_bits \cup ml_bits)

\* C6: every closure passed to Application::Schedule is run by the main loop
\* exactly once and in the order of the appends, wherever the append falls
\* relative to the loop's wait/clear of the bits and its swap of the queue;
\* no closure stays queued with the SCHEDULE bit clear; and, the threads being
\* scheduled fairly, every appended closure is eventually run.
C6_EveryClosureRuns ==
    /\ []ScheduleConserves
    /\ \A id \in 1..MaxClosures : (next_cid > id) ~> HasRun(id)

\* C6 witness: a closure appended after the loop had read and cleared the
\* bits and before it swapped the queue has been run.
C6_Witness ==
    \E i, j \in 1..Len(ml_log) :
        /\ i < j
        /\ ml_log[i][1] = "append" /\ ml_log[i][3] = "sched"
        /\ ml_log[j] = <<"run", ml_log[i][2], "run">>

(***************************************************************************)
(* Properties of the whole program (Spec).                                 *)
(***************************************************************************)
\* the edges the specification calls legal, together with the two edges of
\* start-up (Unknown -> Starting -> Idle)
AnyState == {kDeviceStateUnknown, kDeviceStateStarting, kDeviceStateIdle,
             kDeviceStateConnecting, kDeviceStateListening, kDeviceStateSpeaking,
             kDeviceStateUpgrading, kDeviceStateFatalError}
LegalEdges ==
    {<<kDeviceStateUnknown, kDeviceStateStarting>>,
     <<kDeviceStateStarting, kDeviceStateIdle>>,
     <<kDeviceStateIdle, kDeviceStateConnecting>>,
     <<kDeviceStateConnecting, kDeviceStateListening>>,
     <<kDeviceStateListening, kDeviceStateSpeaking>>,
     <<kDeviceStateSpeaking, kDeviceStateListening>>,
     <<kDeviceStateSpeaking, kDeviceStateIdle>>,
     <<kDeviceStateListening, kDeviceStateIdle>>}
      \cup (AnyState \X {kDeviceStateUpgrading, kDeviceStateFatalError})

\* the edges the callers of SetDeviceState take
TakenEdges ==
    {<<kDeviceStateUnknown, kDeviceStateStarting>>,
     <<kDeviceStateStarting, kDeviceStateIdle>>,
     <<kDeviceStateIdle, kDeviceStateConnecting>>,
     <<kDeviceStateConnecting, kDeviceStateListening>>,
     <<kDeviceStateConnecting, kDeviceStateIdle>>,
     <<kDeviceStateIdle, kDeviceStateListening>>,
     <<kDeviceStateIdle, kDeviceStateSpeaking>>,
     <<kDeviceStateListening, kDeviceStateSpeaking>>,
     <<kDeviceStateSpeaking, kDeviceStateListening>>,
     <<kDeviceStateSpeaking, kDeviceStateIdle>>,
     <<kDeviceStateListening, kDeviceStateIdle>>,
     <<kDeviceStateUpgrading, kDeviceStateIdle>>,
     <<kDeviceStateIdle, kDeviceStateUpgrading>>,
     <<kDeviceStateListening, kDeviceStateUpgrading>>,
     <<kDeviceStateSpeaking, kDeviceStateUpgrading>>}

\* C1 as stated: every change of device_state_ is a legal edge (a request for
\* another edge leaves the state unchanged).
C1_OnlyLegalEdges ==
    [][device_state_' # device_state_
         => <<device_state_, device_state_'>> \in LegalEdges]_vars

\* C1 amended: SetDeviceState applies every request that differs from the
\* current state; the changes it makes are the edges its callers ask for,
\* among them Idle -> Speaking, Idle -> Listening, Connecting -> Idle and
\* Upgrading -> Idle, and never an edge to FatalError.
C1_TakenEdges ==
    [][device_state_' # device_state_
         => <<device_state_, device_state_'>> \in TakenEdges]_vars

\* C1 witness: ToggleChatState's closure, its OpenAudioChannel having failed,
\* is inside SetDeviceState(Idle) with the state changed from Connecting.
C1_Witness ==
    /\ ml_pc = "sds"
    /\ Head(ml_tasks).op = "toggle"
    /\ ml_ret = "done"
    /\ sds_target["main"] = kDeviceStateIdle
    /\ device_state_ = kDeviceStateIdle

\* C2 as stated: every change of device_state_ is made by the main loop
\* while it runs a closure, never by the thread that runs Start.
C2_OnlyMainLoopWrites ==
    [][device_state_' # device_state_
         => (ml_tasks # <<>> /\ sds_pc'["start"] = sds_pc["start"])]_vars

\* C3 as stated: when a thread applies the side effects of SetDeviceState, the
\* executor has nothing pending and nothing in flight.
C3_EffectsAfterBarrier ==
    [][\A t \in SdsThreads :
          (sds_pc[t] = "effects" /\ sds_pc'[t] # "effects") => WaitPredicate]_vars

\* C7 as stated: codec->OutputData is not called while aborted_ is set.
C7_NoOutputWhileAborted ==
    [][(bg_pc = "out" /\ bg_pc' # "out") => ~aborted_]_vars

\* OutputAudio runs in this step
OutputTick == ml_pc = "output" /\ ml_pc' # "output"
\* this step submits the head of the decode queue for decoding
Popped ==
    /\ OutputTick
    /\ audio_decode_queue_ # <<>>
    /\ audio_decode_queue_' = Tail(audio_decode_queue_)
    /\ bg_main_tasks_' =
         Append(bg_main_tasks_, BgTask("decode", Head(audio_decode_queue_), 0))

\* C8: a tick of OutputAudio in state Listening leaves the decode queue empty
\* and submits nothing to the executor.
C8_ListeningTickDiscards ==
    [][(OutputTick /\ device_state_ = kDeviceStateListening)
         => /\ audio_decode_queue_' = <<>>
            /\ bg_main_tasks_' = bg_main_tasks_
            /\ active_tasks_' = active_tasks_]_vars

\* C8 witness: OutputAudio is about to run in state Listening with a frame in
\* the decode queue.
C8_Witness ==
    /\ ml_pc = "output"
    /\ device_state_ = kDeviceStateListening
    /\ audio_decode_queue_ # <<>>

\* C9: whenever the transport can deliver a frame, the delivery appends it to
\* the decode queue if the state is Speaking and only then; in every other
\* state it leaves the queue as it is.
C9_QueuedIffSpeaking ==
    ENABLED OnIncomingAudio =>
      /\ (ENABLED (OnIncomingAudio /\ audio_decode_queue_'
                      = Append(audio_decode_queue_, "net")))
            <=> device_state_ = kDeviceStateSpeaking
      /\ (ENABLED (OnIncomingAudio /\ audio_decode_queue_' = audio_decode_queue_))
            <=> device_state_ # kDeviceStateSpeaking

\* C9 witness: a frame delivered by the transport is in the decode queue.
C9_Witness ==
    /\ device_state_ = kDeviceStateSpeaking
    /\ \E i \in 1..Len(audio_decode_queue_) : audio_decode_queue_[i] = "net"

\* C10 as stated: a frame is popped for decoding only in state Speaking.
C10_PoppedOnlyWhileSpeaking ==
    [][Popped => device_state_ = kDeviceStateSpeaking]_vars

\* C10 amended: a tick of OutputAudio that finds a frame pops it and submits
\* it for decoding in every state but Listening (Idle, Connecting, Starting,
\* Speaking, Upgrading), frames of PlayLocalFile included.
C10_PoppedUnlessListening ==
    [][(OutputTick /\ audio_decode_queue_ # <<>>)
         => (Popped <=> device_state_ # kDeviceStateListening)]_vars

\* C10 witness: OutputAudio is about to run in state Idle with a frame of
\* PlayLocalFile at the head of the decode queue.
C10_Witness ==
    /\ ml_pc = "output"
    /\ device_state_ = kDeviceStateIdle
    /\ audio_decode_queue_ # <<>>
    /\ Head(audio_decode_queue_) = "p3"

(***************************************************************************)
(* Properties of IoT state publishing (SpecIot).                           *)
(***************************************************************************)
\* UpdateIotStates runs in this step (SetDeviceState(Listening), line 637)
UpdateIotStatesStep ==
    /\ sds_pc["main"] = "effects"
    /\ sds_target["main"] = kDeviceStateListening
    /\ sds_pc'["main"] = "none"

\* C11 as stated: in every state last_iot_states_ is the payload of the most
\* recent SendIotStates call (empty when nothing was sent), audio-channel
\* opens included.
C11_CacheEqualsLastSent == last_iot_states_ = iot_sent

\* C11 amended: last_iot_states_ is the payload of the most recent
\* SendIotStates call or, from an audio-channel open (and from the start) to
\* the next publication, empty; UpdateIotStates sends exactly when the
\* current payload differs from last_iot_states_, and what it sends is the
\* current payload, which it caches.
C11_CacheEmptyOrLastSent ==
    [][/\ last_iot_states_' \in {"", iot_sent'}
       /\ UpdateIotStatesStep =>
            /\ (iot_sends' # iot_sends) <=> (iot_states # last_iot_states_)
            /\ iot_sends' # iot_sends =>
                  (iot_sent' = iot_states /\ last_iot_states_' = iot_states)
            /\ iot_sends' = iot_sends =>
                  (iot_sent' = iot_sent /\ last_iot_states_' = last_iot_states_)
       /\ ~UpdateIotStatesStep => iot_sends' = iot_sends]_vars

\* C11 witness: UpdateIotStates is about to run with the payload it sent
\* last, the cache cleared by an audio-channel open since.
C11_Witness ==
    /\ sds_pc["main"] = "effects"
    /\ sds_target["main"] = kDeviceStateListening
    /\ iot_sent = iot_states
    /\ last_iot_states_ = ""

(***************************************************************************)
(* Properties of the silence timeout (SpecSilence).                        *)
(***************************************************************************)
\* C12 as stated: a tick of OutputAudio in state Idle that finds the decode
\* queue empty 10.5 s (21 half seconds) or more after the last output leaves
\* the codec output disabled, and EnableOutput(false) is called once in the
\* idle period, not again by later ticks.
C12_DisabledOnceAfterSilence ==
    [][(/\ OutputTick
        /\ device_state_ = kDeviceStateIdle
        /\ audio_decode_queue_ = <<>>
        /\ silence >= 21)
         => (~output_enabled' /\ disable_calls' = 1)]_vars

(***************************************************************************)
(* Properties of the control closures (SpecControl).                       *)
(***************************************************************************)
\* the main loop is inside the closure `op`
InClosure(op) == ml_tasks # <<>> /\ Head(ml_tasks).op = op
\* the closure is inside its SetDeviceState(state) call, to go on at `cont`
InSetDeviceState(state, cont) ==
    ml_pc = "sds" /\ ml_ret = cont /\ sds_target["main"] = state

\* C13 as stated: ToggleChatState's closure, having found Idle, holds the
\* state at Connecting from its SetDeviceState(Connecting) until
\* OpenAudioChannel returns; when that returns true it has sent nothing yet,
\* and from there to its return the state is Listening, keep_listening_ is
\* true and SendStartListening(AutoStop) is the one call it has made.
C13_ToggleOpens ==
    InClosure("toggle") =>
      /\ (ml_pc = "sds" /\ ml_ret = "toggle_open")
            => device_state_ = kDeviceStateConnecting
      /\ ml_pc = "toggle_open"
            => (device_state_ = kDeviceStateConnecting /\ calls = <<>>)
      /\ InSetDeviceState(kDeviceStateListening, "done")
            => /\ device_state_ = kDeviceStateListening
               /\ keep_listening_
               /\ calls = <<SEND_START_LISTENING_AUTO>>

\* the running closure returns to the main loop in this step
ClosureReturns == ml_tasks # <<>> /\ ml_tasks' = Tail(ml_tasks)

\* the closure `op` returns in this step from the path on which its
\* OpenAudioChannel failed: out of its SetDeviceState(Idle), or straight from
\* the call when the state is Idle already
OpenFailureReturns(op, open_pc) ==
    /\ InClosure(op)
    /\ ClosureReturns
    /\ InSetDeviceState(kDeviceStateIdle, "done") \/ ml_pc = open_pc

\* C14 as stated: on each of the three paths that call OpenAudioChannel
\* (ToggleChatState, StartListening, wake word), the closure whose
\* OpenAudioChannel returned false returns with the state Idle, having
\* raised Alert("Error", "Failed to open audio channel") once and made no
\* SendStartListening or SendWakeWordDetected call.
C14_OpenFailureAlerts ==
    [][(\/ OpenFailureReturns("toggle", "toggle_open")
        \/ OpenFailureReturns("wake_word", "ww_open")
        \/ (ml_pc = "sl_alert" /\ ClosureReturns))
         => (device_state_' = kDeviceStateIdle /\ calls' = <<ALERT_OPEN_FAILED>>)]_vars

(***************************************************************************)
(* Properties of the playback path (SpecPlayback).                         *)
(***************************************************************************)
\* the main loop takes this step
MainStep == ml_pc' # ml_pc \/ ml_tasks' # ml_tasks

\* C15: the closure of tts stop, run in state Speaking, enters
\* WaitForCompletion without sending or changing the state, and leaves it
\* only with the executor drained; then, keep_listening_ being true, it
\* sends SendStartListening(AutoStop) once and sets Listening, and otherwise
\* sends nothing and sets (or finds) Idle.  Run in any other state it
\* returns at once: the state, the flags and the decode queue are unchanged
\* and nothing is sent.
C15_TtsStop ==
    [][/\ (Running("tts_stop") /\ MainStep) =>
            /\ calls' = <<>>
            /\ UNCHANGED <<device_state_, keep_listening_, aborted_,
                           audio_decode_queue_, sds_pc>>
            /\ IF device_state_ = kDeviceStateSpeaking
                 THEN ml_pc' = "tts_stop_wait" /\ ~ClosureReturns
                 ELSE ClosureReturns
       /\ (ml_pc = "tts_stop_wait" /\ MainStep) =>
            /\ bg_main_tasks_ = <<>> /\ active_tasks_ = 0
            /\ ml_pc' = "tts_stop_go"
            /\ UNCHANGED <<device_state_, calls>>
       /\ (ml_pc = "tts_stop_go" /\ MainStep) =>
            IF keep_listening_
              THEN /\ calls' = <<SEND_START_LISTENING_AUTO>>
                   /\ device_state_' = kDeviceStateListening
              ELSE /\ calls' = <<>>
                   /\ device_state_' = kDeviceStateIdle]_vars

\* C15 witness: the closure of tts stop, having waited for a decode closure
\* to finish, has sent SendStartListening(AutoStop) and set Listening.
C15_Witness ==
    /\ InClosure("tts_stop")
    /\ InSetDeviceState(kDeviceStateListening, "done")
    /\ calls = <<SEND_START_LISTENING_AUTO>>
    /\ device_state_ = kDeviceStateListening

\* C16 as stated: the step that sets aborted_ leaves the decode queue as it
\* is, and the closure of tts start that finds aborted_ set with frames in
\* the decode queue clears aborted_ and calls SetDeviceState(Speaking), whose
\* ResetDecoder empties the queue before a frame is popped.
C16_TtsStartResetsAfterAbort ==
    [][/\ (~aborted_ /\ aborted_') => audio_decode_queue_' = audio_decode_queue_
       /\ (Running("tts_start") /\ MainStep /\ aborted_
             /\ audio_decode_queue_ # <<>>)
            => /\ ~aborted_'
               /\ ml_pc' = "sds"
               /\ sds_target'["main"] = kDeviceStateSpeaking]_vars

\* C17: the closure of tts start always clears aborted_; run in state Idle
\* or Listening it sets Speaking (SetDeviceState), and run in any other state
\* it returns with device_state_ and the decode queue unchanged.
C17_TtsStart ==
    [][(Running("tts_start") /\ MainStep) =>
         /\ ~aborted_'
         /\ audio_decode_queue_' = audio_decode_queue_
         /\ IF device_state_ \in {kDeviceStateIdle, kDeviceStateListening}
              THEN /\ device_state_' = kDeviceStateSpeaking
                   /\ ml_pc' = "sds"
                   /\ sds_target'["main"] = kDeviceStateSpeaking
              ELSE /\ device_state_' = device_state_
                   /\ ClosureReturns
                   /\ sds_pc' = sds_pc]_vars

\* C17 witness: the closure of tts start, run in state Listening, has
\* cleared aborted_ and is in SetDeviceState(Speaking).
C17_Witness ==
    /\ InClosure("tts_start")
    /\ InSetDeviceState(kDeviceStateSpeaking, "done")
    /\ device_state_ = kDeviceStateSpeaking
    /\ ~aborted_
    /\ keep_listening_

\* what SetDeviceState acts on: the state, the barrier it waits on, its
\* effects (ResetDecoder, EnableOutput, UpdateIotStates, display and led,
\* which run at position "effects"), and the executor it would wait for
SetDeviceStateFootprint ==
    <<device_state_, audio_decode_queue_, output_enabled, silence,
      last_iot_states_, iot_sent, iot_sends, opus_decode_sample_rate_,
      ap_running, sds_pc, sds_target, cvs, bg_main_tasks_, active_tasks_>>

\* C18: a call of SetDeviceState(s) in state s returns at once: device_state_,
\* the decode queue, the codec output, last_iot_states_ and what was sent
\* are unchanged, the caller does not enter WaitForCompletion, and the
\* effects (display, led, log) are not run.  The calls are those of the
\* closure of OnAudioChannelClosed and of Application::Start in state Idle,
\* and of the closure of tts stop (keep_listening_ false) after its wait.
C18_SameStateNoOp ==
    [][/\ (/\ Running("channel_closed") /\ MainStep
           /\ device_state_ = kDeviceStateIdle)
          => (UNCHANGED SetDeviceStateFootprint /\ ml_pc' # "sds")
       /\ (/\ ml_pc = "tts_stop_go" /\ MainStep
           /\ ~keep_listening_ /\ device_state_ = kDeviceStateIdle)
          => (UNCHANGED SetDeviceStateFootprint /\ ml_pc' # "sds")
       /\ (/\ st_pc = "idle_call" /\ st_pc' # st_pc
           /\ device_state_ = kDeviceStateIdle)
          => (UNCHANGED SetDeviceStateFootprint /\ st_pc' = "done")]_vars

\* C18 witness: the closure of OnAudioChannelClosed is about to call
\* SetDeviceState(Idle) in state Idle, with a frame in the decode queue.
C18_Witness ==
    /\ Running("channel_closed")
    /\ device_state_ = kDeviceStateIdle
    /\ audio_decode_queue_ # <<>>

(***************************************************************************)
(* Properties of PlayLocalFile (SpecPrompt).                               *)
(***************************************************************************)
\* the offset of the record after the first k records
RECURSIVE RecordOffset(_, _)
RecordOffset(recs, k) ==
    IF k = 0 THEN 0
    ELSE RecordOffset(recs, k - 1) + HeaderSize + Len(recs[k])

\* PlayLocalFile has parsed the first k records of its buffer
ParsedRecords(k) ==
    /\ pl_p = RecordOffset(pl_recs, k)
    /\ Len(audio_decode_queue_) = pl_base + k
    /\ \A i \in 1..k : audio_decode_queue_[pl_base + i] = pl_recs[i]

\* C19: PlayLocalFile, called on the concatenation of N well-formed records,
\* sets the decode sample rate to 16000, and after k turns of its loop it
\* stands at the end of the k-th record having appended the payloads of the
\* first k records, in order and whole, to the decode queue; so it never
\* reads past the buffer, and at the end of the buffer it has appended
\* exactly the N payloads.
C19_PlayLocalFile ==
    /\ [](pl_p >= 0 =>
            /\ \E k \in 0..Len(pl_recs) : ParsedRecords(k)
            /\ pl_p >= Len(pl_data) => ParsedRecords(Len(pl_recs)))
    /\ [][(pl_p = -1 /\ pl_p' = 0) => opus_decode_sample_rate_' = 16000]_vars

\* C19 witness: PlayLocalFile is at the end of a buffer of two records of
\* sizes 280 and 1, called with an entry already in the decode queue.
C19_Witness ==
    /\ pl_p = Len(pl_data)
    /\ Len(pl_recs) = 2
    /\ Len(pl_recs[1]) = 280
    /\ Len(pl_recs[2]) = 1
    /\ pl_base = 1
    /\ Len(audio_decode_queue_) = 3
    /\ opus_decode_sample_rate_ = 16000

(***************************************************************************)
(* The transport's callbacks and the core state.                           *)
(***************************************************************************)
\* the core state: DeviceState, the decode queue, the decode sample rate,
\* the session flags and the last IoT snapshot
CoreState ==
    <<device_state_, audio_decode_queue_, opus_decode_sample_rate_,
      aborted_, keep_listening_, last_iot_states_>>

\* a step taken by the transport's thread inside one of the callbacks
\* registered at lines 372-453 (Alert and PlayLocalFile included)
TransportCallbackStep ==
    \/ OnNetworkError
    \/ PlayLocalFilePush
    \/ OnIncomingAudio
    \/ OnAudioChannelOpened
    \/ OnAudioChannelClosed
    \/ OnIncomingJson

\* C20 as stated: no step of a transport callback changes the core state;
\* the callbacks only hand a closure to Schedule.
C20_CallbacksOnlySchedule ==
    [][TransportCallbackStep => UNCHANGED CoreState]_vars

(***************************************************************************)
(* Properties of the whole program (Spec).                                 *)
(***************************************************************************)
\* C21 as stated, for the packets of the microphone: in the build without
\* the audio processor a block is submitted for encoding in state Listening
\* only, so a SendAudio closure run in another state, with no SetDeviceState
\* in progress, carries a packet encoded before the device left Listening.
C21_NoStalePacketSent ==
    [][(Running("send_audio") /\ MainStep /\ ~esp32s3
          /\ \A t \in SdsThreads : sds_pc[t] = "none")
         => device_state_ = kDeviceStateListening]_vars

\* C22 as stated: the closure of CheckNewVersion calls
\* SetDeviceState(Upgrading) in state Idle only.
C22_UpgradingOnlyFromIdle ==
    [][(Running("upgrade") /\ MainStep)
         => device_state_ = kDeviceStateIdle]_vars

\* the upgrade closure has deleted the executor (lines 100-101)
BackgroundTaskDeleted == ml_pc = "halt"

\* C23 as stated: once the executor is deleted no thread submits a closure to
\* it (Schedule adds to main_tasks_ and active_tasks_) and no thread enters
\* its WaitForCompletion.
C23_NoUseAfterDelete ==
    [][BackgroundTaskDeleted =>
         /\ bg_main_tasks_' = bg_main_tasks_
         /\ active_tasks_' = active_tasks_
         /\ \A t \in CvThreads \ {"worker"} : cvs'[t] = cvs[t]]_vars

(***************************************************************************)
(* Properties of the waits of the main loop (FairWait).                    *)
(***************************************************************************)
\* the main loop is inside background_task_->WaitForCompletion()
MainInWait == cvs["main"] # "none"

\* C24: every WaitForCompletion call of the main loop, from SetDeviceState
\* or from the closure of tts stop, returns, the worker being scheduled
\* fairly and every closure terminating, while other threads submit
\* closures to the executor and to the scheduler (as many as the bounds
\* admit).
C24_MainWaitReturns == MainInWait ~> ~MainInWait

\* C24 witness: the main loop is blocked inside the WaitForCompletion of the
\* closure of tts stop while the worker runs a decode closure.
C24_Witness ==
    /\ ml_pc = "tts_stop_wait"
    /\ cvs["main"] = "blocked"
    /\ bg_pc = "out"

(***************************************************************************)
(* Properties of the decoder (SpecDecoder).                                *)
(***************************************************************************)
\* decode closures pending in the executor or held by the worker
DecodeTasks == SelectSeq(bg_main_tasks_ \o bg_local, IsDecode)

\* C25 as stated: SetDecodeSampleRate replaces the decoder and the decode
\* sample rate only when no decode closure is pending or running.
C25_DecoderReplacedOnlyWhenIdle ==
    [][opus_decode_sample_rate_' # opus_decode_sample_rate_
         => DecodeTasks = <<>>]_vars

====
